---------------------------- MODULE Spec2Model ----------------------------
(***************************************************************************)
(* A model of src/conn.rs of the RethinkDB driver: the connection          *)
(* handshake (version word, NUL-terminated JSON messages, SCRAM-SHA-256),  *)
(* the r2d2 ConnectionManager (connect / is_valid / has_broken), the       *)
(* process-wide pool set installed by ConnectOpts::connect, and the byte   *)
(* level reading of a NUL-terminated message.                              *)
(*                                                                         *)
(* Three specifications share the module:                                  *)
(*   Spec         one pooled connection slot per element of Conns: its     *)
(*                Connection::new / handshake, and the pool's use of it;   *)
(*   ConnectSpec  threads calling ConnectOpts::connect();                  *)
(*   FramingSpec  parse_server_response on a byte stream.                  *)
(* Each leaves the variables of the other two unchanged.                   *)
(***************************************************************************)
EXTENDS Integers, Sequences, FiniteSets, TLC

(***************************************************************************)
(* Bounds of the model.                                                    *)
(***************************************************************************)
\* connection slots of the pool that are modelled
MaxConns == 1
\* Connection.token is a u64; the model stops issuing queries at this value
MaxToken == 3
\* AuthResponse.error_code values the server may send, on both sides of the
\* 10 ... 20 range the code tests: MinErrorCode..MaxErrorCode
MinErrorCode == 8
MaxErrorCode == 21
\* threads that call ConnectOpts::connect()
MaxThreads == 2
\* calls of connect() one thread makes
MaxCalls == 2
\* bytes the server sends on one socket before it closes it
MaxStream == 4
\* bytes one read of the socket returns at most (the BufStream's capacity)
MaxChunk == 2
\* parse_server_response calls made on one socket
MaxReads == 2

Conns == 1..MaxConns
Threads == 1..MaxThreads
ErrorCodes == MinErrorCode..MaxErrorCode

\* Option<T>: None is <<>>, Some(x) is <<x>>
Option(S) == {<< >>} \cup {<<x>> : x \in S}
IsSome(o) == o # << >>

(***************************************************************************)
(* Server messages as the handshake sees them.  frame is the outcome of    *)
(* framing and decoding the bytes (see FrameOf below for the byte level):  *)
(*   "empty"     no payload before the terminator / end of stream          *)
(*   "bad_utf8"  payload is not UTF-8                                      *)
(*   "not_json"  payload does not start with '{'                           *)
(*   "bad_json"  payload starts with '{' but serde_json cannot decode it   *)
(*               as the expected struct                                    *)
(*   "json"      decoded; the other fields are those of AuthResponse /     *)
(*               ServerInfo                                                *)
(***************************************************************************)
AuthValues == {"valid", "invalid"}
ErrorTexts == {"Wrong password"}

JsonMsgs ==
  [frame : {"json"}, success : BOOLEAN, authentication : Option(AuthValues),
   error : Option(ErrorTexts), error_code : Option(ErrorCodes)]

Plain(f) ==
  [frame |-> f, success |-> FALSE, authentication |-> << >>,
   error |-> << >>, error_code |-> << >>]

NoMsg == Plain("none")
UndecodedMsgs == {Plain(f) : f \in {"empty", "bad_utf8", "not_json", "bad_json"}}
\* the replies to an AuthRequest or AuthConfirmation
ServerMsgs == JsonMsgs \cup UndecodedMsgs
\* the greeting: ServerInfo has success and none of AuthResponse's other fields
ServerInfoMsgs ==
  {m \in JsonMsgs : m.authentication = << >> /\ m.error = << >> /\ m.error_code = << >>}
    \cup UndecodedMsgs

\* Results: Ok, or an error of the errors module, or a panic of the thread.
Res(k, s, t, m) == [kind |-> k, src |-> s, text |-> t, raw |-> m]
NoResult == Res("None", "none", "", NoMsg)
OkResult == Res("Ok", "none", "", NoMsg)
ConnErr(t) == Res("Connection", "text", t, NoMsg)
IoErr == Res("Io", "none", "", NoMsg)
ParseErr == Res("Parse", "none", "", NoMsg)
ScramErr == Res("Scram", "none", "", NoMsg)
Panic == Res("Panic", "none", "", NoMsg)
\* an error whose message is the raw payload of message m
RawErr(k, m) == Res(k, "raw", "", m)
\* an error whose message is the error field of message m
FieldErr(k, m) == Res(k, "field", m.error[1], NoMsg)

VARIABLES
  \* ---- one Connection per slot (Spec)
  hpc,       \* where the slot's Connection::new / pool life cycle stands
  token,     \* Connection.token
  broken,    \* Connection.broken
  sockErr,   \* the socket's pending error (SO_ERROR): "none" | "pending" | "probe_fails"
  wire,      \* history: the wire events of this connection, in order
  scram,     \* the SCRAM state the handshake holds
  scramLog,  \* history: the SCRAM states consumed (moved out), in order
  result,    \* what Connection::new / is_valid returned
  failedOn,  \* history: the server message on which the handshake failed
  failedAt,  \* history: the step at which the handshake failed
  seen,      \* history: the envelope of the message the last handshake step read
  scramCalls,\* history: the handle_server_first / handle_server_final calls made
  held,      \* history: the global locks held during the last step's socket I/O
  hbRet      \* what has_broken returned to the pool: None, or Some(bool)

VARIABLES
  \* ---- ConnectOpts::connect (ConnectSpec)
  pool,            \* Client::pool(): None, or Some(the installed pool set)
  config,          \* the configuration record Client::set_config stores
  cpc,             \* where each thread's connect() stands
  copts,           \* the options (self) of each thread's call
  cpools,          \* each thread's local `pools`
  cres,            \* what each thread's last connect() returned
  calls,           \* history: connect() calls each thread has made
  beganInstalled,  \* history: the pool set was installed when the call began
  everConcurrent,  \* history: two calls have overlapped
  installs,        \* history: times Client::set_pool was called
  firstInstalled   \* history: the pool set of the first installation

VARIABLES
  \* ---- parse_server_response on a socket (FramingSpec)
  sent,      \* history: all the bytes the server sends before closing
  inbound,   \* the bytes of the socket not read yet
  rbuf,      \* the BufStream's read buffer
  respBytes, \* the Vec `resp` that read_until fills
  fpc,       \* "idle" | "reading" | "read"
  reads,     \* history: what each read_until call returned
  results    \* history: what each parse_server_response call returned

connVars == <<hpc, token, broken, sockErr, wire, scram, scramLog, result, failedOn, failedAt,
              seen, scramCalls, held, hbRet>>
connectVars == <<pool, config, cpc, copts, cpools, cres, calls, beganInstalled,
                 everConcurrent, installs, firstInstalled>>

framingVars == <<sent, inbound, rbuf, respBytes, fpc, reads, results>>

vars == <<connVars, connectVars, framingVars>>

Outcomes == {"ok", "fail"}

(***************************************************************************)
(* parse_server_response, from what it has read to its result: the frame   *)
(* of the message decides it (FrameOf does the same on the bytes).         *)
(***************************************************************************)
parse_server_response(io, m) ==
  IF io = "fail" THEN IoErr
  ELSE IF m.frame = "empty" THEN ConnErr("unable to connect for an unknown reason")
  ELSE IF m.frame = "bad_utf8" THEN ParseErr
  ELSE IF m.frame = "not_json" THEN RawErr("Connection", m)
  ELSE OkResult

\* parse_server_version: the greeting, decoded as ServerInfo
parse_server_version(io, m) ==
  LET resp == parse_server_response(io, m) IN
  IF resp.kind # "Ok" THEN resp
  ELSE IF m.frame = "bad_json" THEN ParseErr
  ELSE IF ~m.success THEN RawErr("Connection", m)
  ELSE OkResult

\* client_first: ClientFirst::new, then the AuthRequest serialised
client_first(new, ser) ==
  IF new = "fail" THEN ScramErr
  ELSE IF ser = "fail" THEN ParseErr
  ELSE OkResult

\* the payload as the message, the error field not looked at
FailureMessage_AlwaysRaw(k, m) == RawErr(k, m)

\* the error message of a success = false response: error, else the payload
FailureMessage(k, m) == IF IsSome(m.error) THEN FieldErr(k, m) ELSE RawErr(k, m)

\* client_final, success = false: auth error for codes 10 ... 20
ClientFinalFailure(m) ==
  IF IsSome(m.error_code) /\ m.error_code[1] \in 10..20
    THEN FailureMessage("Auth", m)
    ELSE FailureMessage("Connection", m)

\* handle_server_first(&auth): Err on a server-first it cannot accept
handle_server_first(auth) == IF auth = "valid" THEN "ok" ELSE "fail"

\* client_final that goes on without the authentication field, the way
\* parse_server_final does
client_final_AuthOptional(io, m, ser) ==
  LET resp == parse_server_response(io, m) IN
  IF resp.kind # "Ok" THEN resp
  ELSE IF m.frame = "bad_json" THEN ParseErr
  ELSE IF ~m.success THEN ClientFinalFailure(m)
  ELSE IF IsSome(m.authentication) /\ handle_server_first(m.authentication[1]) = "fail"
    THEN Panic
    ELSE IF ser = "fail" THEN ParseErr ELSE OkResult

\* client_final: the server-first AuthResponse, then the AuthConfirmation
client_final(io, m, ser) ==
  LET resp == parse_server_response(io, m) IN
  IF resp.kind # "Ok" THEN resp
  ELSE IF m.frame = "bad_json" THEN ParseErr
  ELSE IF ~m.success THEN ClientFinalFailure(m)
  ELSE IF IsSome(m.authentication)
    THEN IF handle_server_first(m.authentication[1]) = "fail" THEN Panic  \* unwrap()
         ELSE IF ser = "fail" THEN ParseErr
         ELSE OkResult
    ELSE ConnErr("Server did not send authentication info.")

\* the range with its upper end left out (10 .. 20 exclusive)
ServerFinalFailure_Exclusive(m) ==
  IF IsSome(m.error_code) /\ m.error_code[1] \in 10..19
    THEN FailureMessage("Auth", m)
    ELSE FailureMessage("Connection", m)

\* parse_server_final, success = false: auth error for codes 10 ... 20
ServerFinalFailure(m) ==
  IF IsSome(m.error_code) /\ m.error_code[1] \in 10..20
    THEN FailureMessage("Auth", m)
    ELSE FailureMessage("Connection", m)

\* handle_server_final(&auth): Err when the server's proof does not verify
handle_server_final(auth) == IF auth = "valid" THEN "ok" ELSE "fail"

\* parse_server_final: the server-final AuthResponse
parse_server_final(io, m) ==
  LET resp == parse_server_response(io, m) IN
  IF resp.kind # "Ok" THEN resp
  ELSE IF m.frame = "bad_json" THEN ParseErr
  ELSE IF ~m.success THEN ServerFinalFailure(m)
  ELSE IF IsSome(m.authentication) /\ handle_server_final(m.authentication[1]) = "fail"
    THEN Panic  \* unwrap()
    ELSE OkResult

\* a call of a must-succeed SCRAM transition, with the success field of the
\* response it is made on
ScramCall(fn, m) == [fn |-> fn, success |-> m.success, auth |-> m.authentication[1]]

\* the response was read and serde_json decoded it
Decoded(io, m) == parse_server_response(io, m).kind = "Ok" /\ m.frame # "bad_json"

\* handle_server_first called before info.success is looked at
client_final_calls_BeforeSuccess(io, m) ==
  IF Decoded(io, m) /\ IsSome(m.authentication)
    THEN <<ScramCall("handle_server_first", m)>>
    ELSE << >>

\* the handle_server_first calls client_final makes
client_final_calls(io, m) ==
  IF Decoded(io, m) /\ m.success /\ IsSome(m.authentication)
    THEN <<ScramCall("handle_server_first", m)>>
    ELSE << >>

\* the handle_server_final calls parse_server_final makes
parse_server_final_calls(io, m) ==
  IF Decoded(io, m) /\ m.success /\ IsSome(m.authentication)
    THEN <<ScramCall("handle_server_final", m)>>
    ELSE << >>

\* the SCRAM state parse_server_final leaves behind when it returns Ok
FinalScramState(m) == IF IsSome(m.authentication) THEN "Verified" ELSE "Dropped"

\* the fields of a message on which the handshake branches
Envelope(m) == [frame |-> m.frame, success |-> m.success, authentication |-> m.authentication]

\* the process-wide locks a function of the handshake takes on entry and
\* keeps until it returns (`let logger = Client::logger().read();`)
GuardsOf(fn) ==
  IF fn \in {"parse_server_version", "parse_server_response", "client_first",
             "client_final", "parse_server_final"}
    THEN {"logger"}
    ELSE {}

\* the functions on the call stack when a step of the handshake does its
\* socket I/O (<< >>: the step does none)
IoStack(step) ==
  CASE step \in {"write_version", "write_client_first", "write_client_final", "flush"}
         -> <<"handshake">>
    [] step = "parse_server_version"
         -> <<"handshake", "parse_server_version", "parse_server_response">>
    [] step = "client_final"
         -> <<"handshake", "client_final", "parse_server_response">>
    [] step = "parse_server_final"
         -> <<"handshake", "parse_server_final", "parse_server_response">>
    [] OTHER -> << >>

\* the locks a thread holds while it blocks on the socket in that step
LocksDuringIo(step) == UNION {GuardsOf(IoStack(step)[i]) : i \in 1..Len(IoStack(step))}

(***************************************************************************)
(* Spec: the life of one connection slot.                                  *)
(***************************************************************************)
ConnInit ==
  /\ hpc = [c \in Conns |-> "none"]
  /\ token = [c \in Conns |-> 0]
  /\ broken = [c \in Conns |-> FALSE]
  /\ sockErr = [c \in Conns |-> "none"]
  /\ wire = [c \in Conns |-> << >>]
  /\ scram = [c \in Conns |-> "None"]
  /\ scramLog = [c \in Conns |-> << >>]
  /\ result = [c \in Conns |-> NoResult]
  /\ failedOn = [c \in Conns |-> NoMsg]
  /\ failedAt = [c \in Conns |-> "none"]
  /\ seen = [c \in Conns |-> Envelope(NoMsg)]
  /\ scramCalls = [c \in Conns |-> << >>]
  /\ held = [c \in Conns |-> {}]
  /\ hbRet = [c \in Conns |-> << >>]

\* the handshake step of slot c ends with result r, having read message m
\* and written or read `events`; on Ok it goes on at `next`
Step(c, r, m, events, next) ==
  /\ wire' = [wire EXCEPT ![c] = IF r.kind = "Ok" THEN @ \o events ELSE @]
  /\ hpc' = [hpc EXCEPT ![c] =
               IF r.kind = "Ok" THEN next
               ELSE IF r.kind = "Panic" THEN "panicked" ELSE "failed"]
  /\ result' = [result EXCEPT ![c] = IF r.kind = "Ok" /\ next # "idle" THEN NoResult ELSE r]
  /\ failedOn' = [failedOn EXCEPT ![c] = IF r.kind = "Ok" THEN NoMsg ELSE m]
  /\ failedAt' = [failedAt EXCEPT ![c] = IF r.kind = "Ok" THEN "none" ELSE hpc[c]]
  /\ seen' = [seen EXCEPT ![c] = Envelope(m)]
  /\ held' = [held EXCEPT ![c] = LocksDuringIo(hpc[c])]

\* Connection::new: the server option, TcpStream::connect, the struct
NewConnection(c) ==
  /\ UNCHANGED <<connectVars, framingVars>>
  /\ hpc[c] \in {"none", "failed", "panicked"}
  /\ \E server \in Option({"localhost:28015"}), tcp \in Outcomes :
       LET r == IF ~IsSome(server) THEN ConnErr("No server selected.")
                ELSE IF tcp = "fail" THEN IoErr ELSE OkResult
       IN /\ hpc' = [hpc EXCEPT ![c] = IF r.kind = "Ok" THEN "write_version" ELSE "failed"]
          /\ result' = [result EXCEPT ![c] = IF r.kind = "Ok" THEN NoResult ELSE r]
          /\ failedAt' = [failedAt EXCEPT ![c] = IF r.kind = "Ok" THEN "none" ELSE "new"]
  /\ failedOn' = [failedOn EXCEPT ![c] = NoMsg]
  /\ wire' = [wire EXCEPT ![c] = << >>]
  /\ token' = [token EXCEPT ![c] = 0]
  /\ broken' = [broken EXCEPT ![c] = FALSE]
  /\ sockErr' = [sockErr EXCEPT ![c] = "none"]
  /\ scram' = [scram EXCEPT ![c] = "None"]
  /\ scramLog' = [scramLog EXCEPT ![c] = << >>]
  /\ seen' = [seen EXCEPT ![c] = Envelope(NoMsg)]
  /\ scramCalls' = [scramCalls EXCEPT ![c] = << >>]
  /\ held' = [held EXCEPT ![c] = {}]
  /\ hbRet' = [hbRet EXCEPT ![c] = << >>]

\* handshake: write_u32::<LittleEndian>(V1_0)
WriteVersion(c) ==
  /\ UNCHANGED <<connectVars, framingVars>>
  /\ hpc[c] = "write_version"
  /\ \E io \in Outcomes :
       Step(c, IF io = "ok" THEN OkResult ELSE IoErr, NoMsg,
            <<"write_version">>, "parse_server_version")
  /\ UNCHANGED <<token, broken, sockErr, scram, scramLog, scramCalls, hbRet>>

\* handshake: parse_server_version(&self.stream)
ParseServerVersion(c) ==
  /\ UNCHANGED <<connectVars, framingVars>>
  /\ hpc[c] = "parse_server_version"
  /\ \E io \in Outcomes, m \in ServerInfoMsgs :
       Step(c, parse_server_version(io, m), IF io = "ok" THEN m ELSE NoMsg,
            <<"read_server_info">>, "client_first")
  /\ UNCHANGED <<token, broken, sockErr, scram, scramLog, scramCalls, hbRet>>

\* handshake: client_first(opts); ClientFirst is consumed by client_first()
ClientFirst(c) ==
  /\ UNCHANGED <<connectVars, framingVars>>
  /\ hpc[c] = "client_first"
  /\ \E new \in Outcomes, ser \in Outcomes :
       /\ Step(c, client_first(new, ser), NoMsg, << >>, "write_client_first")
       /\ scram' = [scram EXCEPT ![c] = IF new = "ok" THEN "ServerFirst" ELSE @]
       /\ scramLog' = [scramLog EXCEPT ![c] =
                         IF new = "ok" THEN Append(@, "ClientFirst") ELSE @]
  /\ UNCHANGED <<token, broken, sockErr, scramCalls, hbRet>>

\* a write whose failure is not propagated (no try!)
WriteClientFirst_IgnoreError(c) ==
  /\ UNCHANGED <<connectVars, framingVars>>
  /\ hpc[c] = "write_client_first"
  /\ \E io \in Outcomes :
       Step(c, OkResult, NoMsg,
            IF io = "ok" THEN <<"write_auth_request">> ELSE << >>, "client_final")
  /\ UNCHANGED <<token, broken, sockErr, scram, scramLog, scramCalls, hbRet>>

\* handshake: write_all(client first message)
WriteClientFirst(c) ==
  /\ UNCHANGED <<connectVars, framingVars>>
  /\ hpc[c] = "write_client_first"
  /\ \E io \in Outcomes :
       Step(c, IF io = "ok" THEN OkResult ELSE IoErr, NoMsg,
            <<"write_auth_request">>, "client_final")
  /\ UNCHANGED <<token, broken, sockErr, scram, scramLog, scramCalls, hbRet>>

\* handshake: client_final(scram, &self.stream); the ServerFirst state is
\* moved into the call
ClientFinal(c) ==
  /\ UNCHANGED <<connectVars, framingVars>>
  /\ hpc[c] = "client_final"
  /\ \E io \in Outcomes, m \in ServerMsgs, ser \in Outcomes :
       LET r == client_final(io, m, ser) IN
       /\ Step(c, r, IF io = "ok" THEN m ELSE NoMsg,
               <<"read_server_first">>, "write_client_final")
       /\ scram' = [scram EXCEPT ![c] = IF r.kind = "Ok" THEN "ServerFinal" ELSE "Dropped"]
       /\ scramCalls' = [scramCalls EXCEPT ![c] = @ \o client_final_calls(io, m)]
  /\ scramLog' = [scramLog EXCEPT ![c] = Append(@, scram[c])]
  /\ UNCHANGED <<token, broken, sockErr, hbRet>>

\* a handshake that returns after sending the confirmation
WriteClientFinal_NoServerFinal(c) ==
  /\ UNCHANGED <<connectVars, framingVars>>
  /\ hpc[c] = "write_client_final"
  /\ \E io \in Outcomes :
       Step(c, IF io = "ok" THEN OkResult ELSE IoErr, NoMsg,
            <<"write_auth_confirmation">>, "idle")
  /\ UNCHANGED <<token, broken, sockErr, scram, scramLog, scramCalls, hbRet>>

\* handshake: write_all(client final message)
WriteClientFinal(c) ==
  /\ UNCHANGED <<connectVars, framingVars>>
  /\ hpc[c] = "write_client_final"
  /\ \E io \in Outcomes :
       Step(c, IF io = "ok" THEN OkResult ELSE IoErr, NoMsg,
            <<"write_auth_confirmation">>, "parse_server_final")
  /\ UNCHANGED <<token, broken, sockErr, scram, scramLog, scramCalls, hbRet>>

\* handshake: parse_server_final(scram, &self.stream); the ServerFinal
\* state is moved into the call
ParseServerFinal(c) ==
  /\ UNCHANGED <<connectVars, framingVars>>
  /\ hpc[c] = "parse_server_final"
  /\ \E io \in Outcomes, m \in ServerMsgs :
       LET r == parse_server_final(io, m) IN
       /\ Step(c, r, IF io = "ok" THEN m ELSE NoMsg, <<"read_server_final">>, "flush")
       /\ scram' = [scram EXCEPT ![c] = IF r.kind = "Ok" THEN FinalScramState(m) ELSE "Dropped"]
       /\ scramCalls' = [scramCalls EXCEPT ![c] = @ \o parse_server_final_calls(io, m)]
  /\ scramLog' = [scramLog EXCEPT ![c] = Append(@, scram[c])]
  /\ UNCHANGED <<token, broken, sockErr, hbRet>>

\* handshake: flush(); Ok(()) and Connection::new returns Ok(conn)
Flush(c) ==
  /\ UNCHANGED <<connectVars, framingVars>>
  /\ hpc[c] = "flush"
  /\ \E io \in Outcomes :
       Step(c, IF io = "ok" THEN OkResult ELSE IoErr, NoMsg, <<"flush">>, "idle")
  /\ UNCHANGED <<token, broken, sockErr, scram, scramLog, scramCalls, hbRet>>

(***************************************************************************)
(* The pool's use of a connection.  r2d2 checks a connection out through   *)
(* is_valid and drops it when is_valid fails; it takes a connection back   *)
(* through has_broken and drops it when has_broken says true.              *)
(***************************************************************************)
Reset(c) ==
  /\ hpc' = [hpc EXCEPT ![c] = "none"]
  /\ token' = [token EXCEPT ![c] = 0]
  /\ broken' = [broken EXCEPT ![c] = FALSE]
  /\ sockErr' = [sockErr EXCEPT ![c] = "none"]
  /\ wire' = [wire EXCEPT ![c] = << >>]
  /\ scram' = [scram EXCEPT ![c] = "None"]
  /\ scramLog' = [scramLog EXCEPT ![c] = << >>]
  /\ seen' = [seen EXCEPT ![c] = Envelope(NoMsg)]
  /\ scramCalls' = [scramCalls EXCEPT ![c] = << >>]
  /\ held' = [held EXCEPT ![c] = {}]
  /\ hbRet' = [hbRet EXCEPT ![c] = << >>]
  /\ result' = [result EXCEPT ![c] = NoResult]
  /\ failedOn' = [failedOn EXCEPT ![c] = NoMsg]
  /\ failedAt' = [failedAt EXCEPT ![c] = "none"]

\* Query::write / Query::read: a socket failure marks the connection broken
QueryIo(io, b) == [result |-> IF io = "ok" THEN OkResult ELSE IoErr,
                   broken |-> b \/ io = "fail"]

ExpectedResponse == [utf8 |-> TRUE, text |-> "{\"t\":1,\"r\":[1]}"]
QueryResponses ==
  {ExpectedResponse,
   [utf8 |-> TRUE, text |-> "{\"t\":1,\"r\":[2]}"],
   [utf8 |-> TRUE, text |-> "{\"t\":1,\"r\":[1]} "],
   [utf8 |-> FALSE, text |-> ""]}

\* is_valid, once Query::read has returned resp
is_valid_response(resp) ==
  IF ~resp.utf8 THEN ParseErr
  ELSE IF resp.text # "{\"t\":1,\"r\":[1]}" THEN ConnErr("Unexpected response from server.")
  ELSE OkResult

\* is_valid that counts a query only once it has been written
IsValidWrite_IncrementOnSuccess(c) ==
  /\ UNCHANGED <<connectVars, framingVars>>
  /\ hpc[c] = "idle"
  /\ token[c] < MaxToken
  /\ \E io \in Outcomes :
       LET w == QueryIo(io, broken[c]) IN
       /\ token' = [token EXCEPT ![c] = IF io = "ok" THEN @ + 1 ELSE @]
       /\ broken' = [broken EXCEPT ![c] = w.broken]
       /\ result' = [result EXCEPT ![c] = w.result]
       /\ hpc' = [hpc EXCEPT ![c] = IF w.result.kind = "Ok" THEN "is_valid_read" ELSE "check_failed"]
       /\ wire' = [wire EXCEPT ![c] = IF w.result.kind = "Ok" THEN Append(@, "query_write") ELSE @]
  /\ UNCHANGED <<sockErr, scram, scramLog, failedOn, failedAt, seen, scramCalls, held, hbRet>>

\* is_valid: conn.token += 1, then Query::write
IsValidWrite(c) ==
  /\ UNCHANGED <<connectVars, framingVars>>
  /\ hpc[c] = "idle"
  /\ token[c] < MaxToken
  /\ token' = [token EXCEPT ![c] = @ + 1]
  /\ \E io \in Outcomes :
       LET w == QueryIo(io, broken[c]) IN
       /\ broken' = [broken EXCEPT ![c] = w.broken]
       /\ result' = [result EXCEPT ![c] = w.result]
       /\ hpc' = [hpc EXCEPT ![c] = IF w.result.kind = "Ok" THEN "is_valid_read" ELSE "check_failed"]
       /\ wire' = [wire EXCEPT ![c] = IF w.result.kind = "Ok" THEN Append(@, "query_write") ELSE @]
  /\ UNCHANGED <<sockErr, scram, scramLog, failedOn, failedAt, seen, scramCalls, held, hbRet>>

\* is_valid: Query::read, then the response compared; on Ok the pool hands
\* the connection to the caller
IsValidRead(c) ==
  /\ UNCHANGED <<connectVars, framingVars>>
  /\ hpc[c] = "is_valid_read"
  /\ \E io \in Outcomes, resp \in QueryResponses :
       LET rd == QueryIo(io, broken[c])
           r == IF rd.result.kind # "Ok" THEN rd.result ELSE is_valid_response(resp)
       IN
       /\ broken' = [broken EXCEPT ![c] = rd.broken]
       /\ result' = [result EXCEPT ![c] = r]
       /\ hpc' = [hpc EXCEPT ![c] = IF r.kind = "Ok" THEN "out" ELSE "check_failed"]
       /\ wire' = [wire EXCEPT ![c] = IF io = "ok" THEN Append(@, "query_read") ELSE @]
  /\ UNCHANGED <<token, sockErr, scram, scramLog, failedOn, failedAt, seen, scramCalls, held,
                 hbRet>>

\* the pool drops a connection whose is_valid failed
DropInvalid(c) ==
  /\ UNCHANGED <<connectVars, framingVars>>
  /\ hpc[c] = "check_failed"
  /\ Reset(c)

\* the caller runs a query on the connection it holds, until one fails
CallerQuery(c) ==
  /\ UNCHANGED <<connectVars, framingVars>>
  /\ hpc[c] = "out"
  /\ ~broken[c]
  /\ token[c] < MaxToken
  /\ token' = [token EXCEPT ![c] = @ + 1]
  /\ \E wio \in Outcomes, rio \in Outcomes :
       LET w == QueryIo(wio, broken[c])
           rd == IF wio = "ok" THEN QueryIo(rio, w.broken) ELSE w
       IN
       /\ broken' = [broken EXCEPT ![c] = rd.broken]
       /\ wire' = [wire EXCEPT ![c] =
                     @ \o (IF wio = "ok" THEN <<"query_write">> ELSE << >>)
                       \o (IF wio = "ok" /\ rio = "ok" THEN <<"query_read">> ELSE << >>)]
  /\ UNCHANGED <<hpc, sockErr, scram, scramLog, result, failedOn, failedAt, seen, scramCalls,
                 held, hbRet>>

\* the environment: the socket gets a pending error, or can no longer be probed
SocketFault(c) ==
  /\ UNCHANGED <<connectVars, framingVars>>
  /\ hpc[c] \in {"idle", "is_valid_read", "check_failed", "out"}
  /\ sockErr[c] = "none"
  /\ \E e \in {"pending", "probe_fails"} : sockErr' = [sockErr EXCEPT ![c] = e]
  /\ UNCHANGED <<hpc, token, broken, wire, scram, scramLog, result, failedOn, failedAt, seen,
                 scramCalls, held, hbRet>>

\* has_broken without its look at conn.broken
has_broken_SocketOnly(b, e) ==
  IF e = "pending" THEN TRUE
  ELSE IF e = "probe_fails" THEN TRUE
  ELSE FALSE

\* has_broken that takes a failed probe for a sound socket
has_broken_IgnoreProbeFailure(b, e) ==
  IF b THEN TRUE
  ELSE IF e = "pending" THEN TRUE
  ELSE FALSE

\* has_broken: conn.broken, else stream.take_error()
has_broken(b, e) ==
  IF b THEN TRUE
  ELSE IF e = "pending" THEN TRUE
  ELSE IF e = "probe_fails" THEN TRUE
  ELSE FALSE

\* take_error() returns the pending error and clears it
take_error(b, e) == IF ~b /\ e = "pending" THEN "none" ELSE e

\* the caller gives the connection back: the pool calls has_broken(conn)
HasBroken(c) ==
  /\ UNCHANGED <<connectVars, framingVars>>
  /\ hpc[c] = "out"
  /\ hpc' = [hpc EXCEPT ![c] = "put_back"]
  /\ hbRet' = [hbRet EXCEPT ![c] = <<has_broken(broken[c], sockErr[c])>>]
  /\ sockErr' = [sockErr EXCEPT ![c] = take_error(broken[c], @)]
  /\ UNCHANGED <<token, broken, wire, scram, scramLog, result, failedOn, failedAt, seen,
                 scramCalls, held>>

\* the pool drops the connection has_broken reported, and keeps the others
Release(c) ==
  /\ UNCHANGED <<connectVars, framingVars>>
  /\ hpc[c] = "put_back"
  /\ IF hbRet[c] = <<TRUE>>
       THEN Reset(c)
       ELSE /\ hpc' = [hpc EXCEPT ![c] = "idle"]
            /\ hbRet' = [hbRet EXCEPT ![c] = << >>]
            /\ UNCHANGED <<token, broken, sockErr, wire, scram, scramLog, result, failedOn,
                           failedAt, seen, scramCalls, held>>

Next ==
  \E c \in Conns :
    \/ NewConnection(c)
    \/ WriteVersion(c)
    \/ ParseServerVersion(c)
    \/ ClientFirst(c)
    \/ WriteClientFirst(c)
    \/ ClientFinal(c)
    \/ WriteClientFinal(c)
    \/ ParseServerFinal(c)
    \/ Flush(c)
    \/ IsValidWrite(c)
    \/ IsValidRead(c)
    \/ DropInvalid(c)
    \/ CallerQuery(c)
    \/ SocketFault(c)
    \/ HasBroken(c)
    \/ Release(c)

(***************************************************************************)
(* ConnectSpec: threads calling ConnectOpts::connect().                    *)
(***************************************************************************)
ServerLists == {<<"a:28015">>, <<"a:28015", "b:28015">>}
Opts == [servers : ServerLists, db : {"test"}]

ConnectInit ==
  /\ pool = << >>
  /\ config = << >>
  /\ cpc = [t \in Threads |-> "idle"]
  /\ copts = [t \in Threads |-> [servers |-> <<"a:28015">>, db |-> "test"]]
  /\ cpools = [t \in Threads |-> << >>]
  /\ cres = [t \in Threads |-> "None"]
  /\ calls = [t \in Threads |-> 0]
  /\ beganInstalled = [t \in Threads |-> FALSE]
  /\ everConcurrent = FALSE
  /\ installs = 0
  /\ firstInstalled = << >>

\* Client::set_config(opts): the record is stored
set_config(cfg, o) == <<o>>

\* Client::set_pool(pools): the pool set is installed
set_pool(p, pools) == <<pools>>

\* connect(): the call begins and stores its options with set_config
Connect(t) ==
  /\ UNCHANGED <<connVars, framingVars>>
  /\ cpc[t] = "idle"
  /\ calls[t] < MaxCalls
  /\ \E o \in Opts :
       /\ copts' = [copts EXCEPT ![t] = o]
       /\ config' = set_config(config, o)
  /\ cpc' = [cpc EXCEPT ![t] = "check"]
  /\ cpools' = [cpools EXCEPT ![t] = << >>]
  /\ cres' = [cres EXCEPT ![t] = "None"]
  /\ calls' = [calls EXCEPT ![t] = @ + 1]
  /\ beganInstalled' = [beganInstalled EXCEPT ![t] = IsSome(pool)]
  /\ everConcurrent' = (everConcurrent \/ \E u \in Threads \ {t} : cpc[u] # "idle")
  /\ UNCHANGED <<pool, installs, firstInstalled>>

\* the check goes on to build pools although a pool set is installed
CheckPool_Always(t) ==
  /\ UNCHANGED <<connVars, framingVars>>
  /\ cpc[t] = "check"
  /\ cpc' = [cpc EXCEPT ![t] = "build"]
  /\ UNCHANGED <<pool, config, copts, cpools, cres, calls, beganInstalled,
                 everConcurrent, installs, firstInstalled>>

\* connect(): if Client::pool().read().is_some() return Ok(())
CheckPool(t) ==
  /\ UNCHANGED <<connVars, framingVars>>
  /\ cpc[t] = "check"
  /\ IF IsSome(pool)
       THEN /\ cres' = [cres EXCEPT ![t] = "Ok"]
            /\ cpc' = [cpc EXCEPT ![t] = "idle"]
       ELSE /\ cpc' = [cpc EXCEPT ![t] = "build"]
            /\ UNCHANGED cres
  /\ UNCHANGED <<pool, config, copts, cpools, calls, beganInstalled,
                 everConcurrent, installs, firstInstalled>>

\* a loop that notes the error of Pool::new and goes on (no try!)
BuildPool_ContinueAfterError(t) ==
  /\ UNCHANGED <<connVars, framingVars>>
  /\ cpc[t] = "build"
  /\ Len(cpools[t]) < Len(copts[t].servers)
  /\ \E new \in Outcomes :
       IF new = "ok"
         THEN /\ cpools' = [cpools EXCEPT ![t] = Append(@, copts[t].servers[Len(@) + 1])]
              /\ UNCHANGED <<cpc, cres>>
         ELSE /\ cres' = [cres EXCEPT ![t] = "PoolError"]
              /\ UNCHANGED <<cpc, cpools>>
  /\ UNCHANGED <<pool, config, copts, calls, beganInstalled, everConcurrent,
                 installs, firstInstalled>>

\* connect(): one turn of the loop, Pool::new for the next endpoint
BuildPool(t) ==
  /\ UNCHANGED <<connVars, framingVars>>
  /\ cpc[t] = "build"
  /\ Len(cpools[t]) < Len(copts[t].servers)
  /\ \E new \in Outcomes :
       IF new = "ok"
         THEN /\ cpools' = [cpools EXCEPT ![t] = Append(@, copts[t].servers[Len(@) + 1])]
              /\ UNCHANGED <<cpc, cres>>
         ELSE /\ cpools' = [cpools EXCEPT ![t] = << >>]
              /\ cres' = [cres EXCEPT ![t] = "PoolError"]
              /\ cpc' = [cpc EXCEPT ![t] = "idle"]
  /\ UNCHANGED <<pool, config, copts, calls, beganInstalled, everConcurrent,
                 installs, firstInstalled>>

\* connect(): after the loop, Client::set_pool(pools) and Ok(())
SetPool(t) ==
  /\ UNCHANGED <<connVars, framingVars>>
  /\ cpc[t] = "build"
  /\ Len(cpools[t]) = Len(copts[t].servers)
  /\ pool' = set_pool(pool, cpools[t])
  /\ installs' = installs + 1
  /\ firstInstalled' = IF installs = 0 THEN <<cpools[t]>> ELSE firstInstalled
  /\ cpools' = [cpools EXCEPT ![t] = << >>]
  /\ cres' = [cres EXCEPT ![t] = "Ok"]
  /\ cpc' = [cpc EXCEPT ![t] = "idle"]
  /\ UNCHANGED <<config, copts, calls, beganInstalled, everConcurrent>>

ConnectNext ==
  \E t \in Threads :
    \/ Connect(t)
    \/ CheckPool(t)
    \/ BuildPool(t)
    \/ SetPool(t)

(***************************************************************************)
(* FramingSpec: parse_server_response on the bytes of a socket.            *)
(***************************************************************************)
NUL == 0
Brace == 123
\* NUL, '{', 'a', and the two bytes of U+00E9 (0xC3 0xA9)
Bytes == {NUL, Brace, 97, 195, 169}
ByteSeqs(n) == UNION {[1..k -> Bytes] : k \in 0..n}

Min(a, b) == IF a < b THEN a ELSE b
Drop(q, n) == SubSeq(q, n + 1, Len(q))
Take(q, n) == SubSeq(q, 1, n)

\* str::from_utf8: whether the bytes from position i on are well-formed UTF-8
IsCont(q, i) == i <= Len(q) /\ q[i] >= 128 /\ q[i] <= 191
RECURSIVE Utf8From(_, _)
Utf8From(q, i) ==
  IF i > Len(q) THEN TRUE
  ELSE LET b == q[i] IN
    IF b <= 127 THEN Utf8From(q, i + 1)
    ELSE IF b >= 194 /\ b <= 223 THEN IsCont(q, i + 1) /\ Utf8From(q, i + 2)
    ELSE IF b = 224 THEN
      i + 1 <= Len(q) /\ q[i + 1] >= 160 /\ q[i + 1] <= 191 /\ IsCont(q, i + 2)
      /\ Utf8From(q, i + 3)
    ELSE IF (b >= 225 /\ b <= 236) \/ b = 238 \/ b = 239 THEN
      IsCont(q, i + 1) /\ IsCont(q, i + 2) /\ Utf8From(q, i + 3)
    ELSE IF b = 237 THEN
      i + 1 <= Len(q) /\ q[i + 1] >= 128 /\ q[i + 1] <= 159 /\ IsCont(q, i + 2)
      /\ Utf8From(q, i + 3)
    ELSE IF b = 240 THEN
      i + 1 <= Len(q) /\ q[i + 1] >= 144 /\ q[i + 1] <= 191 /\ IsCont(q, i + 2)
      /\ IsCont(q, i + 3) /\ Utf8From(q, i + 4)
    ELSE IF b >= 241 /\ b <= 243 THEN
      IsCont(q, i + 1) /\ IsCont(q, i + 2) /\ IsCont(q, i + 3) /\ Utf8From(q, i + 4)
    ELSE IF b = 244 THEN
      i + 1 <= Len(q) /\ q[i + 1] >= 128 /\ q[i + 1] <= 143 /\ IsCont(q, i + 2)
      /\ IsCont(q, i + 3) /\ Utf8From(q, i + 4)
    ELSE FALSE
from_utf8(q) == Utf8From(q, 1)

\* the results of parse_server_response on bytes
FRes(k, t, b) == [kind |-> k, text |-> t, payload |-> b]
FOk(b) == FRes("Ok", "", b)
FIoErr == FRes("Io", "", << >>)
FParseErr == FRes("Parse", "", << >>)
FUnknown == FRes("Connection", "unable to connect for an unknown reason", << >>)
FRawErr(b) == FRes("Connection", "", b)

\* Vec::pop: the last element goes, whatever it is
pop(q) == IF q = << >> THEN << >> ELSE Take(q, Len(q) - 1)

\* the frame of what read_until returned (the frames of ServerMsgs; "text"
\* is a payload that starts with '{', which serde_json then decodes or not)
FrameOf(q) ==
  LET body == pop(q) IN
  IF body = << >> THEN "empty"
  ELSE IF ~from_utf8(body) THEN "bad_utf8"
  ELSE IF body[1] # Brace THEN "not_json"
  ELSE "text"

\* parse_server_response without its respBytes.pop()
parse_server_response_bytes_NoPop(q) ==
  IF q = << >> THEN FUnknown
  ELSE IF ~from_utf8(q) THEN FParseErr
  ELSE IF q[1] # Brace THEN FRawErr(q)
  ELSE FOk(q)

\* parse_server_response, after read_until has returned q
parse_server_response_bytes(q) ==
  LET f == FrameOf(q) IN
  IF f = "empty" THEN FUnknown
  ELSE IF f = "bad_utf8" THEN FParseErr
  ELSE IF f = "not_json" THEN FRawErr(pop(q))
  ELSE FOk(pop(q))

\* the message as written: msg.push(b'\0')
Frame(msg) == Append(msg, NUL)

\* the position of the first NUL in q, or 0
FirstNul(q) ==
  IF \E i \in 1..Len(q) : q[i] = NUL
    THEN CHOOSE i \in 1..Len(q) : q[i] = NUL /\ \A j \in 1..(i - 1) : q[j] # NUL
    ELSE 0

FramingInit ==
  /\ sent \in ByteSeqs(MaxStream)
  /\ inbound = sent
  /\ rbuf = << >>
  /\ respBytes = << >>
  /\ fpc = "idle"
  /\ reads = << >>
  /\ results = << >>

\* parse_server_response: a new Vec and a new BufStream on the socket
BeginRead ==
  /\ UNCHANGED <<connVars, connectVars>>
  /\ fpc = "idle"
  /\ Len(results) < MaxReads
  /\ fpc' = "reading"
  /\ rbuf' = << >>
  /\ respBytes' = << >>
  /\ UNCHANGED <<sent, inbound, reads, results>>

\* read_until, one turn of its loop: the buffer is filled with the k bytes
\* the socket has, and they are taken up to the first NUL
ReadUntil ==
  /\ UNCHANGED <<connVars, connectVars>>
  /\ fpc = "reading"
  /\ IF inbound = << >>
       THEN \* end of stream: read returns 0
            /\ fpc' = "read"
            /\ UNCHANGED <<inbound, rbuf, respBytes>>
       ELSE \E k \in 1..Min(Len(inbound), MaxChunk) :
              LET chunk == Take(inbound, k)
                  i == FirstNul(chunk)
              IN /\ inbound' = Drop(inbound, k)
                 /\ respBytes' = respBytes \o (IF i > 0 THEN Take(chunk, i) ELSE chunk)
                 /\ rbuf' = IF i > 0 THEN Drop(chunk, i) ELSE << >>
                 /\ fpc' = IF i > 0 THEN "read" ELSE "reading"
  /\ UNCHANGED <<sent, reads, results>>

\* read_until fails on the socket: try! returns the error
ReadError ==
  /\ UNCHANGED <<connVars, connectVars>>
  /\ fpc = "reading"
  /\ fpc' = "idle"
  /\ reads' = Append(reads, respBytes)
  /\ results' = Append(results, FIoErr)
  /\ rbuf' = << >>
  /\ respBytes' = << >>
  /\ UNCHANGED <<sent, inbound>>

\* parse_server_response after read_until: pop, the checks, the result;
\* the BufStream is dropped with what its buffer still holds
FinishRead ==
  /\ UNCHANGED <<connVars, connectVars>>
  /\ fpc = "read"
  /\ fpc' = "idle"
  /\ reads' = Append(reads, respBytes)
  /\ results' = Append(results, parse_server_response_bytes(respBytes))
  /\ rbuf' = << >>
  /\ respBytes' = << >>
  /\ UNCHANGED <<sent, inbound>>

FramingNext ==
  \/ BeginRead
  \/ ReadUntil
  \/ ReadError
  \/ FinishRead

\* the variables of FramingSpec while the other specifications run
FramingIdle ==
  /\ sent = << >>
  /\ inbound = << >>
  /\ rbuf = << >>
  /\ respBytes = << >>
  /\ fpc = "idle"
  /\ reads = << >>
  /\ results = << >>

Init ==
  /\ ConnInit
  /\ ConnectInit
  /\ FramingIdle

FInit ==
  /\ ConnInit
  /\ ConnectInit
  /\ FramingInit

Spec == Init /\ [][Next]_vars

ConnectSpec == Init /\ [][ConnectNext]_vars

FramingSpec == FInit /\ [][FramingNext]_vars

(***************************************************************************)
(* Properties of Spec.                                                     *)
(***************************************************************************)
IsPrefix(p, q) == Len(p) <= Len(q) /\ SubSeq(q, 1, Len(p)) = p
Count(q, S) == Cardinality({i \in 1..Len(q) : q[i] \in S})

HandshakeOrder ==
  <<"write_version", "read_server_info", "write_auth_request", "read_server_first",
    "write_auth_confirmation", "read_server_final", "flush">>
ScramOrder == <<"ClientFirst", "ServerFirst", "ServerFinal">>
ReadEvents == {"read_server_info", "read_server_first", "read_server_final"}
QueryEvents == {"query_write", "query_read"}
HandshakeEvents == {HandshakeOrder[i] : i \in 1..Len(HandshakeOrder)}
IsHandshakeEvent(e) == e \in HandshakeEvents

\* Connection::new has returned Ok(conn): the pool, then a caller, holds it
Handed(c) == hpc[c] \in {"idle", "is_valid_read", "check_failed", "out", "put_back"}

\* C1: every Connection that Connection::new has handed over has written
\* the version word once and read exactly three server messages, queries
\* are sent only on such a connection, and every handshake event of a
\* connection comes before every query event of it.
C1_HandshakeBeforeQueries ==
  \A c \in Conns :
    /\ Handed(c) =>
         /\ Count(wire[c], {"write_version"}) = 1
         /\ Count(wire[c], ReadEvents) = 3
         /\ ReadEvents \subseteq {wire[c][i] : i \in 1..Len(wire[c])}
    /\ Count(wire[c], QueryEvents) > 0 => Handed(c)
    /\ \A i \in 1..Len(wire[c]), j \in 1..Len(wire[c]) :
         wire[c][i] \in HandshakeEvents /\ wire[c][j] \in QueryEvents => i < j

\* a caller holds a connection on which queries were exchanged
C1_Witness ==
  \E c \in Conns : hpc[c] = "out" /\ token[c] >= 1 /\ Count(wire[c], QueryEvents) >= 2

\* the handshake events done when the handshake stands at (or failed at) a step
EventsBefore(step) ==
  CASE step \in {"none", "new", "write_version"} -> 0
    [] step = "parse_server_version" -> 1
    [] step \in {"client_first", "write_client_first"} -> 2
    [] step = "client_final" -> 3
    [] step = "write_client_final" -> 4
    [] step = "parse_server_final" -> 5
    [] step = "flush" -> 6
    [] OTHER -> 7

AuthRefused(c) ==
  /\ hpc[c] = "failed"
  /\ failedAt[c] \in {"client_final", "parse_server_final"}
  /\ failedOn[c].frame = "json"
  /\ ~failedOn[c].success

\* C3: on a success = false AuthResponse (server-first or server-final) the
\* error is an auth error exactly when error_code is present and between
\* 10 and 20, both included, and a connection error otherwise, whatever
\* the error text.
C3_AuthErrorRange ==
  \A c \in Conns :
    AuthRefused(c) =>
      LET code == failedOn[c].error_code
          inRange == code # << >> /\ code[1] >= 10 /\ code[1] <= 20
      IN /\ result[c].kind = "Auth" <=> inRange
         /\ result[c].kind = "Connection" <=> ~inRange

\* the server-final response refused with error_code 20
C3_Witness ==
  \E c \in Conns :
    /\ AuthRefused(c) /\ failedAt[c] = "parse_server_final"
    /\ failedOn[c].error_code = <<20>> /\ result[c].kind = "Auth"

\* C4: whatever the server replies, the handshake runs to completion or
\* returns a typed error; it never ends by a panic.
C4_TypedErrorOrCompletion ==
  \A c \in Conns :
    /\ hpc[c] # "panicked"
    /\ result[c].kind \in {"None", "Ok", "Connection", "Auth", "Parse", "Io", "Scram"}

\* C5: the pool never hands a caller a connection whose broken flag is set.
C5_NeverHandsOutBroken ==
  [][\A c \in Conns : hpc[c] # "out" /\ hpc'[c] = "out" => ~broken'[c]]_vars

\* a checked-out connection was marked broken while the caller held it
C5_Witness ==
  \E c \in Conns : hpc[c] = "out" /\ broken[c]

\* C6: after is_valid has failed, the connection is marked broken and
\* has_broken says true.
C6_FailedCheckMarksBroken ==
  \A c \in Conns :
    hpc[c] = "check_failed" => broken[c] /\ has_broken(broken[c], sockErr[c])

\* the handshake of c has just run client_final
AfterClientFinal(c) ==
  \/ hpc[c] = "write_client_final"
  \/ hpc[c] \in {"failed", "panicked"} /\ failedAt[c] = "client_final"

\* the handshake of c has just run parse_server_final
AfterParseServerFinal(c) ==
  \/ hpc[c] = "flush"
  \/ hpc[c] \in {"failed", "panicked"} /\ failedAt[c] = "parse_server_final"

\* C11: when the server-first AuthResponse has success = true and no
\* authentication field, the handshake fails with the connection error
\* "Server did not send authentication info.", no AuthConfirmation has
\* been written and no Connection is handed over.
C11_MissingAuthenticationFails ==
  \A c \in Conns :
    /\ AfterClientFinal(c)
    /\ seen[c].frame = "json" /\ seen[c].success /\ seen[c].authentication = << >>
    => /\ hpc[c] = "failed"
       /\ result[c] = ConnErr("Server did not send authentication info.")
       /\ Count(wire[c], {"write_auth_confirmation"}) = 0
       /\ ~Handed(c)

\* the server-first response came with success = true and no authentication
C11_Witness ==
  \E c \in Conns :
    /\ hpc[c] = "failed" /\ failedAt[c] = "client_final"
    /\ seen[c].frame = "json" /\ seen[c].success /\ seen[c].authentication = << >>
    /\ wire[c] = SubSeq(HandshakeOrder, 1, 3)

\* C12: the error a success = false AuthResponse (server-first or
\* server-final) ends in carries the response's error field when that is
\* present and the raw payload, as it was received, when it is absent,
\* be the error an auth error or a connection error.
C12_ErrorFieldElsePayload ==
  \A c \in Conns :
    AuthRefused(c) =>
      /\ result[c].kind \in {"Auth", "Connection"}
      /\ IF IsSome(failedOn[c].error)
           THEN result[c].src = "field" /\ result[c].text = failedOn[c].error[1]
           ELSE result[c].src = "raw" /\ result[c].raw = failedOn[c]

\* an auth error that carries the error field of the server-first response
C12_Witness ==
  \E c \in Conns :
    /\ AuthRefused(c) /\ failedAt[c] = "client_final"
    /\ IsSome(failedOn[c].error) /\ result[c].kind = "Auth"
    /\ result[c].text = "Wrong password"

\* C14: the handshake holds no global lock: during the socket I/O of each
\* of its steps (version-word write, NUL-terminated reads, message writes,
\* flush) the thread holds no process-wide lock, neither the logger lock
\* nor the pool-set lock.
C14_NoGlobalLockDuringIo ==
  \A c \in Conns : held[c] = {}

HandedStates == {"idle", "is_valid_read", "check_failed", "out", "put_back"}

\* C15: a Connection leaves Connection::new with token 0 and broken false;
\* as long as it lives its token never decreases; the step of is_valid
\* that writes the query adds exactly 1 to the token, also when the write
\* fails, no query is written without that, and the rest of is_valid (the
\* read and the comparison, failing or not) leaves the token alone.
C15_TokenCounts ==
  [][\A c \in Conns :
       /\ hpc[c] = "flush" /\ hpc'[c] = "idle" => token'[c] = 0 /\ ~broken'[c]
       /\ hpc[c] \in HandedStates /\ hpc'[c] \in HandedStates => token'[c] >= token[c]
       /\ hpc[c] = "idle" /\ hpc'[c] \in {"is_valid_read", "check_failed"} =>
            token'[c] = token[c] + 1
       /\ Count(wire'[c], {"query_write"}) > Count(wire[c], {"query_write"}) =>
            token'[c] = token[c] + 1
       /\ hpc[c] = "is_valid_read" /\ hpc'[c] \in {"out", "check_failed"} =>
            token'[c] = token[c]]_vars

\* the second is_valid of a connection failed on its write: token is 2
C15_Witness ==
  \E c \in Conns :
    /\ hpc[c] = "check_failed" /\ result[c].kind = "Io"
    /\ token[c] = 2 /\ Count(wire[c], {"query_write"}) = 1

\* C16: has_broken(conn) returns true exactly when conn.broken is set, or
\* the socket has a pending error, or the probe of the socket fails, and
\* false otherwise; the call changes neither conn.token nor conn.broken.
C16_HasBrokenExact ==
  [][\A c \in Conns :
       hpc[c] = "out" /\ hpc'[c] = "put_back" =>
         /\ hbRet'[c] = <<(broken[c] \/ sockErr[c] = "pending" \/ sockErr[c] = "probe_fails")>>
         /\ token'[c] = token[c]
         /\ broken'[c] = broken[c]]_vars

\* has_broken has said true of a connection that is not marked broken and
\* whose socket could not be probed
C16_Witness ==
  \E c \in Conns :
    /\ hpc[c] = "put_back" /\ hbRet[c] = <<TRUE>>
    /\ ~broken[c] /\ sockErr[c] = "probe_fails" /\ token[c] >= 1

\* C19: Connection::new returns a Connection only if handle_server_final
\* was run on the authentication value of the server-final response and
\* accepted it (the server's proof was verified); a server-final response
\* with success = true and no authentication field yields no Connection.
C19_ServerProofVerified ==
  \A c \in Conns :
    Handed(c) =>
      /\ scram[c] = "Verified"
      /\ \E i \in 1..Len(scramCalls[c]) :
           /\ scramCalls[c][i].fn = "handle_server_final"
           /\ handle_server_final(scramCalls[c][i].auth) = "ok"

\* C20: handle_server_first and handle_server_final are called only on a
\* response whose success field was seen to be true; on a response with
\* success = false neither is called and the SCRAM state does not advance
\* (to ServerFinal after the server-first, to verified after the
\* server-final response).
C20_ScramOnlyAfterSuccess ==
  \A c \in Conns :
    /\ \A i \in 1..Len(scramCalls[c]) : scramCalls[c][i].success
    /\ AfterClientFinal(c) /\ seen[c].frame = "json" /\ ~seen[c].success =>
         /\ scramCalls[c] = << >>
         /\ scram[c] # "ServerFinal"
    /\ AfterParseServerFinal(c) /\ seen[c].frame = "json" /\ ~seen[c].success =>
         /\ \A i \in 1..Len(scramCalls[c]) : scramCalls[c][i].fn # "handle_server_final"
         /\ scram[c] # "Verified"

\* the server-final response came with success = false and an
\* authentication value: only handle_server_first has been called
C20_Witness ==
  \E c \in Conns :
    /\ hpc[c] = "failed" /\ failedAt[c] = "parse_server_final"
    /\ seen[c].frame = "json" /\ ~seen[c].success /\ IsSome(seen[c].authentication)
    /\ Len(scramCalls[c]) = 1 /\ scramCalls[c][1].fn = "handle_server_first"

(***************************************************************************)
(* Properties of ConnectSpec.                                              *)
(***************************************************************************)
\* C7: a connect() call that begins when the pool set is installed builds
\* no pool, does not reach set_pool and returns Ok; and as long as no two
\* calls have overlapped the pool set is installed at most once and stays
\* the one of the first successful call.
C7_ConnectIdempotent ==
  /\ \A t \in Threads :
       beganInstalled[t] =>
         /\ cpc[t] \in {"check", "idle"}
         /\ cpools[t] = << >>
         /\ cpc[t] = "idle" => cres[t] = "Ok"
  /\ ~everConcurrent =>
       /\ installs <= 1
       /\ IsSome(pool) => pool = firstInstalled

\* a later call, made with other servers, has returned Ok
C7_Witness ==
  \E t \in Threads :
    /\ beganInstalled[t] /\ cpc[t] = "idle" /\ cres[t] = "Ok"
    /\ ~everConcurrent /\ installs = 1
    /\ IsSome(pool) /\ copts[t].servers # pool[1]

\* C8: under every interleaving of concurrent connect() calls the pool set
\* is installed at most once and at most one call is building pools.
C8_InstalledExactlyOnce ==
  /\ installs <= 1
  /\ Cardinality({t \in Threads : cpc[t] = "build"}) <= 1

\* C13: the pool set is installed only by a call that has built the pools
\* of all its endpoints, and that call returns Ok; a call whose Pool::new
\* fails returns that error at once, installs nothing and builds no
\* further pool; and a call returns Ok only with a pool set installed.
C13_InstallAllOrFirstError ==
  [][/\ pool' # pool =>
          \E t \in Threads :
            /\ cpc[t] = "build" /\ cpools[t] = copts[t].servers
            /\ pool' = <<copts[t].servers>>
            /\ cpc'[t] = "idle" /\ cres'[t] = "Ok"
     /\ \A t \in Threads :
          /\ cres[t] # "PoolError" /\ cres'[t] = "PoolError" =>
               /\ pool' = pool /\ installs' = installs
               /\ cpc'[t] = "idle" /\ cpools'[t] = << >>
          /\ Len(cpools'[t]) > Len(cpools[t]) =>
               /\ cpc[t] = "build" /\ cres[t] = "None"
               /\ cpools'[t] = SubSeq(copts[t].servers, 1, Len(cpools[t]) + 1)
          /\ cres[t] # "Ok" /\ cres'[t] = "Ok" => IsSome(pool')]_vars

\* a call with two endpoints has returned the error of Pool::new, and no
\* pool set is installed
C13_Witness ==
  \E t \in Threads :
    /\ cpc[t] = "idle" /\ cres[t] = "PoolError"
    /\ Len(copts[t].servers) = 2
    /\ pool = << >> /\ installs = 0

\* C17: a connect() call made when the pool set is installed returns Ok and
\* changes neither the installed pool set nor the stored configuration
\* record, whatever options it is called with.
C17_LaterConnectIsNoOp ==
  [][\A t \in Threads :
       /\ cpc[t] = "idle" /\ cpc'[t] = "check" /\ IsSome(pool) =>
            pool' = pool /\ config' = config
       /\ beganInstalled[t] /\ cpc[t] = "check" /\ cpc'[t] = "idle" =>
            cres'[t] = "Ok" /\ pool' = pool /\ config' = config]_vars

(***************************************************************************)
(* Properties of FramingSpec.                                              *)
(***************************************************************************)
HasNul(q) == \E i \in 1..Len(q) : q[i] = NUL

\* what reading a NUL-terminated message is said to return, when read_until
\* has returned q: q ends with the terminator or the stream ended first
ExpectedOfRead(q) ==
  LET terminated == q # << >> /\ q[Len(q)] = NUL
      body == IF terminated THEN Take(q, Len(q) - 1) ELSE q
  IN IF ~terminated \/ body = << >> THEN FUnknown
     ELSE IF ~from_utf8(body) THEN FParseErr
     ELSE IF body[1] # Brace THEN FRawErr(body)
     ELSE FOk(body)

\* C9: a read fails with "unable to connect for an unknown reason" when no
\* terminator came before the end of the stream or the body is empty, else
\* with a parse error when the body is not UTF-8, else with the payload as
\* a connection error when it does not start with '{', and else returns
\* the body, the terminator stripped and nothing else removed.
C9_ReadClassification ==
  \A i \in 1..Len(results) :
    results[i].kind # "Io" => results[i] = ExpectedOfRead(reads[i])

\* the strings the round trip is about, UTF-8 and with no 0x00 inside,
\* whose framed form can be what was sent: the prefixes of sent
Strings == {q \in {Take(sent, k) : k \in 0..Len(sent)} : ~HasNul(q) /\ from_utf8(q)}

\* C10 as stated: for every UTF-8 string s without 0x00, s framed and then
\* read is s again, and no other string has the same framed form.
C10_RoundTripAllStrings ==
  \A s \in Strings :
    Len(results) >= 1 /\ results[1].kind # "Io" /\ IsPrefix(Frame(s), sent) =>
      /\ results[1] = FOk(s)
      /\ \A s2 \in Strings : IsPrefix(Frame(s2), sent) => s2 = s

\* C10, amended: for every UTF-8 string s without 0x00 that is not empty
\* and starts with '{', s framed and then read (the socket not failing) is
\* s again, and no other string has the same framed form.
C10_RoundTripJsonStrings ==
  \A s \in Strings :
    /\ Len(results) >= 1 /\ results[1].kind # "Io" /\ IsPrefix(Frame(s), sent)
    /\ s # << >> /\ s[1] = Brace
    => /\ results[1] = FOk(s)
       /\ \A s2 \in Strings : IsPrefix(Frame(s2), sent) => s2 = s

\* "{a" and its terminator were sent, and "{a" was read
C10_Witness ==
  /\ sent = Frame(<<Brace, 97>>)
  /\ Len(results) >= 1
  /\ results[1] = FOk(<<Brace, 97>>)

\* the byte sequences of qs, one after the other
RECURSIVE Flatten(_)
Flatten(qs) == IF qs = << >> THEN << >> ELSE Head(qs) \o Flatten(Tail(qs))

\* C18: each read of a NUL-terminated message takes from the socket's
\* inbound stream the bytes up to and including the first 0x00 and no
\* more: between reads, what the reads have returned, followed by what the
\* socket still holds, is what the server has sent.
C18_NothingReadAhead ==
  fpc = "idle" => Flatten(reads) \o inbound = sent

=============================================================================
